---- MODULE Spec2Model ----
(***************************************************************************)
(* PhotoGuestsAI backend: the personalized-album pipeline, the delivery    *)
(* endpoints, album upload and the guest roster, as state machines over    *)
(* the object store (S3), the event directory (DynamoDB) and the local     *)
(* temporary workspace.                                                    *)
(*                                                                         *)
(* Strings built by f-strings in the source are modelled structurally:     *)
(* an object key "{folder}{dir}/{sub}/{name}" is the record                *)
(* [ev, dir, sub, name], a file name "{stem}.{ext}" is [stem, ext] and a   *)
(* stem "{a}_{b}" is the tuple <<a, b>>.                                   *)
(***************************************************************************)
EXTENDS Integers, Sequences, FiniteSets, TLC

\* ------------------------------------------------------------------ bounds
MaxGuests == 2
MaxRuns == 2
MaxImages == 2
NumSubmitters == 3

\* ---------------------------------------------------------- value universes
Events == {"e1", "e2"}
Phones == {"p1", "p2"}
GuestNames == {"bob"}
UUIDs == {"u1", "u2"}
Users == {"alice", "mallory"}

\* EventStatus (an str Enum); the order PendingUpload -> AlbumUploaded -> Completed
PENDING_UPLOAD == "PendingUpload"
ALBUM_UPLOADED == "AlbumUploaded"
COMPLETED == "Completed"
EventStatus == {PENDING_UPLOAD, ALBUM_UPLOADED, COMPLETED}

NoEvent == [event_id |-> "", email |-> "", status |-> "", num_images |-> 0]

\* ------------------------------------------------------------- file names
FileName(stem, ext) == [stem |-> stem, ext |-> ext]
NoName == FileName(<<>>, "")

\* an object key of the bucket
Key(ev, dir, sub, name) == [ev |-> ev, dir |-> dir, sub |-> sub, name |-> name]

\* the ServerSideEncryption argument of a write, "" when the call passes none
KMS == "aws:kms"
NO_SSE == ""

\* s3_client.put_object / upload_fileobj: the object at key k is replaced
Put(store, k, body, sse) ==
    {o \in store : o.k # k} \cup {[k |-> k, v |-> body, sse |-> sse]}

\* the writes of create_event_folder, upload_file_to_s3 and upload_images_to_s3,
\* which pass ServerSideEncryption = "aws:kms"
PutObject(store, k, body) == Put(store, k, body, KMS)

HasObject(store, k) == \E o \in store : o.k = k

\* list_objects_v2(Prefix = "{folder}{dir}/{sub}/"): the objects below a prefix
ListObjects(store, ev, dir, sub) ==
    {o \in store : o.k.ev = ev /\ o.k.dir = dir /\ o.k.sub = sub /\ o.k.name # NoName}

VARIABLES
    events,        \* the Events table: event id -> record (NoEvent when absent)
    s3,            \* the bucket: a set of [k |-> key, v |-> body]
    guest_list,    \* guest-submissions/guest_list.json of each event, a sequence
    resp,          \* the last HTTP response of a delivery or upload endpoint
    oplog,         \* the object-store calls of that request, in program order
    used_uuids,    \* the uuid4 values drawn so far
    submitters,    \* the submit_guest requests in flight: [pc, ev, entry, local]
    pipeline,      \* the invocation of create_and_upload_personalized_albums
    environ,       \* os.environ["TOKEN_FOR_EXPENSIVE_REQUESTS"], None when unset
    outbox,        \* the messages handed to the SMS gateway by the last batch send
    uploaders,     \* the upload_event_album requests in flight: [pc, ev, n]
    token_storage, \* payment.py token_storage: reference id -> [token, expires_at]
    now,           \* the value time.time() returns
    callbacks,     \* the payment_success requests: [pc, request, called_at, ...]
    tmp_file,      \* the local file /tmp/guest_list.csv: [exists, rows]
    importers,     \* the guest-list imports in flight: [pc, ev, guest_list]
    events_guest_list \* the guest_list attribute of each item of the Events table

vars == <<events, s3, guest_list, resp, oplog, used_uuids, submitters, pipeline,
          environ, outbox, uploaders, token_storage, now, callbacks, tmp_file,
          importers, events_guest_list>>

\* the state of the payment router and of the guest-list imports
PaymentVars == <<token_storage, now, callbacks>>
ImportVars == <<tmp_file, importers, events_guest_list>>

\* before any payment request, and with no import running
NoPayments ==
    /\ token_storage = [k \in {} |-> k]
    /\ now = 0
    /\ callbacks = <<>>

NoFile == [exists |-> FALSE, rows |-> <<>>]

NoImports ==
    /\ tmp_file = NoFile
    /\ importers = <<>>
    /\ events_guest_list = <<>>

\* Python's None, where the model needs it next to strings
None == "<None>"

\* ------------------------------------------------------- event directory
\* dynamodb_service.get_event_by_id: response.get("Item"), None when absent
get_event_by_id(e) == events[e]

\* routers/events.py generate_event_folder_path(event): the event's storage
\* path "{owner}/{date}/{name}/{event_id}/"; it ends in the unique event id,
\* so the path is identified with the id.
generate_event_folder_path(event) == event.event_id

NewEvent(e, owner) ==
    [event_id |-> e, email |-> owner, status |-> PENDING_UPLOAD, num_images |-> MaxImages]

\* s3_service.create_event_folder: three zero-byte folder markers
create_event_folder(store, e) ==
    LET m1 == PutObject(store, Key(e, "album", "", NoName), 0)
        m2 == PutObject(m1, Key(e, "guest-submissions", "", NoName), 0)
    IN  PutObject(m2, Key(e, "personalized-albums", "", NoName), 0)

\* ----------------------------------------------------------- guest roster
\* the roster entry {"name", "phone", "photo_url"}; photo_url is
\* "https://{BUCKET}.s3.amazonaws.com/{key}", a constant prefix before the key
GuestSubmission(name, phone, key) == [name |-> name, phone |-> phone, photo_url |-> key]

\* guests.py:63 "{path}guest-submissions/{phone}_{guest_uuid}.jpg"
guests_photo_key(path, phone, u) ==
    Key(path, "guest-submissions", "", FileName(<<phone, u>>, "jpg"))

\* events.py:216 "{folder}guest-submissions/{name}_{uuid4}.jpg"
events_photo_key(path, name, u) ==
    Key(path, "guest-submissions", "", FileName(<<name, u>>, "jpg"))

\* guests.py:75 "{path}guest-submissions/guest_list.json"
guest_list_key(path) ==
    Key(path, "guest-submissions", "", FileName(<<"guest_list">>, "json"))

\* s3_service.py:178-183, the put_object of append_to_guest_list_in_s3: Bucket,
\* Key, Body and ContentType, no ServerSideEncryption; the list itself is kept
\* in guest_list
put_guest_list(store, path) == Put(store, guest_list_key(path), 0, NO_SSE)

\* guests.py:124  photo_url.split("/")[-1].rsplit(".", 1)[0]: the last path
\* segment without its extension
guest_uuid_of(guest) == guest.photo_url.name.stem

\* every value a client can present as {guest_uuid}
PresentedUuids == {<<a, u>> : a \in Phones \cup GuestNames, u \in UUIDs} \cup {<<u>> : u \in UUIDs}

\* s3_service.get_guest_list_from_s3: the parsed guest_list.json, [] on any error
get_guest_list_from_s3(path) == IF path \in Events THEN guest_list[path] ELSE <<>>

\* routers/guests.py validate_guest_by_uuid_and_phone_number: some roster entry
\* has the presented phone and the presented opaque id; otherwise 403.
validate_guest_by_uuid_and_phone_number(path, guest_uuid, phone_number) ==
    LET guests == get_guest_list_from_s3(path)
    IN  \E i \in DOMAIN guests :
            /\ guests[i].phone = phone_number
            /\ guest_uuid_of(guests[i]) = guest_uuid

TotalGuests == Len(guest_list["e1"]) + Len(guest_list["e2"])

Response(op, e, phone, uuid, status, body) ==
    [op |-> op, ev |-> e, phone |-> phone, uuid |-> uuid, status |-> status,
     body |-> body, detail |-> "", authorization |-> ""]

\* an HTTPException(status_code, detail) of an endpoint that names no guest
Answer(op, e, status, detail) ==
    [op |-> op, ev |-> e, phone |-> "", uuid |-> <<>>, status |-> status,
     body |-> {}, detail |-> detail, authorization |-> ""]

NoResponse == Response("", "", "", <<>>, 0, {})

Call(name, dir) == [call |-> name, dir |-> dir]

\* guests.py submit_guest, with append_to_guest_list_in_s3 run to completion
guests_submit_guest(e, name, phone, u, upload_ok) ==
    LET event == get_event_by_id(e)
        path == generate_event_folder_path(event)
        key == guests_photo_key(path, phone, u)
    IN  /\ TotalGuests < MaxGuests
        /\ u \notin used_uuids
        /\ IF event = NoEvent
           THEN /\ resp' = Response("submit_guest", e, phone, <<>>, 500, {})
                /\ UNCHANGED <<s3, guest_list, used_uuids>>
           ELSE /\ used_uuids' = used_uuids \cup {u}
                /\ IF upload_ok
                   THEN /\ s3' = put_guest_list(PutObject(s3, key, 0), path)
                        /\ guest_list' = [guest_list EXCEPT
                               ![path] = Append(@, GuestSubmission(name, phone, key))]
                        /\ resp' = Response("submit_guest", e, phone, <<>>, 200, {})
                   ELSE /\ resp' = Response("submit_guest", e, phone, <<>>, 500, {})
                        /\ UNCHANGED <<s3, guest_list>>
        /\ oplog' = <<>>
        /\ UNCHANGED events

\* events.py submit_guest: the photo is stored as {name}_{uuid4}.jpg
events_submit_guest(e, name, phone, u, upload_ok) ==
    LET event == get_event_by_id(e)
        path == generate_event_folder_path(event)
        key == events_photo_key(path, name, u)
    IN  /\ TotalGuests < MaxGuests
        /\ u \notin used_uuids
        /\ IF event = NoEvent
           THEN /\ resp' = Response("submit_guest", e, phone, <<>>, 500, {})
                /\ UNCHANGED <<s3, guest_list, used_uuids>>
           ELSE /\ used_uuids' = used_uuids \cup {u}
                /\ IF upload_ok
                   THEN /\ s3' = put_guest_list(PutObject(s3, key, 0), path)
                        /\ guest_list' = [guest_list EXCEPT
                               ![path] = Append(@, GuestSubmission(name, phone, key))]
                        /\ resp' = Response("submit_guest", e, phone, <<>>, 200, {})
                   ELSE /\ resp' = Response("submit_guest", e, phone, <<>>, 500, {})
                        /\ UNCHANGED <<s3, guest_list>>
        /\ oplog' = <<>>
        /\ UNCHANGED events

\* ------------------------------------------------------ delivery endpoints
\* albums.py:119-120 "{path}personalized-albums/{phone}/{phone}.zip"
album_zip_key(path, phone) ==
    Key(path, "personalized-albums", phone, FileName(<<phone>>, "zip"))

ImageExts == {"jpg", "jpeg", "png"}

\* the outcome of the guest check in the endpoints: the roster is read, then
\* the request goes on or is answered 403
ValidationLog(ok) ==
    <<Call("get_guest_list", "guest-submissions")>> \o
        (IF ok THEN <<Call("validated", "")>> ELSE <<>>)

\* albums.py get_personalized_album_photos without the guest check
get_personalized_album_photos_unchecked(e, phone, uuid, s3_ok) ==
    LET event == get_event_by_id(e)
        path == generate_event_folder_path(event)
        found == ListObjects(s3, path, "personalized-albums", phone)
    IN  /\ IF event = NoEvent
           THEN /\ resp' = Response("photos", e, phone, uuid, 500, {})
                /\ oplog' = <<>>
           ELSE IF ~s3_ok
           THEN /\ resp' = Response("photos", e, phone, uuid, 500, {})
                /\ oplog' = <<Call("list_objects_v2", "personalized-albums")>>
           ELSE /\ resp' = Response("photos", e, phone, uuid, 200,
                               {o \in found : o.k.name.ext \in ImageExts})
                /\ oplog' = <<Call("list_objects_v2", "personalized-albums")>>
        /\ UNCHANGED <<events, s3, guest_list, used_uuids>>

\* albums.py get_personalized_album with the object fetched before the guest check
get_personalized_album_fetch_first(e, phone, uuid, s3_ok) ==
    LET event == get_event_by_id(e)
        path == generate_event_folder_path(event)
        ok == validate_guest_by_uuid_and_phone_number(path, uuid, phone)
        s3_key == album_zip_key(path, phone)
        head == <<Call("head_object", "personalized-albums")>>
    IN  /\ IF event = NoEvent
           THEN /\ resp' = Response("album", e, phone, uuid, 500, {})
                /\ oplog' = <<>>
           ELSE IF ~s3_ok
           THEN /\ resp' = Response("album", e, phone, uuid, 500, {})
                /\ oplog' = head
           ELSE IF ~HasObject(s3, s3_key)
           THEN /\ resp' = Response("album", e, phone, uuid, 404, {})
                /\ oplog' = head
           ELSE IF ~ok
           THEN /\ resp' = Response("album", e, phone, uuid, 403, {})
                /\ oplog' = head \o <<Call("get_object", "personalized-albums")>>
                               \o ValidationLog(ok)
           ELSE /\ resp' = Response("album", e, phone, uuid, 200, {o \in s3 : o.k = s3_key})
                /\ oplog' = head \o <<Call("get_object", "personalized-albums")>>
                               \o ValidationLog(ok)
        /\ UNCHANGED <<events, s3, guest_list, used_uuids>>

\* albums.py get_personalized_album: s3_ok = FALSE is a ClientError other than 404
get_personalized_album(e, phone, uuid, s3_ok) ==
    LET event == get_event_by_id(e)
        path == generate_event_folder_path(event)
        ok == validate_guest_by_uuid_and_phone_number(path, uuid, phone)
        s3_key == album_zip_key(path, phone)
        head == <<Call("head_object", "personalized-albums")>>
    IN  /\ IF event = NoEvent
           THEN /\ resp' = Response("album", e, phone, uuid, 500, {})
                /\ oplog' = <<>>
           ELSE IF ~ok
           THEN /\ resp' = Response("album", e, phone, uuid, 403, {})
                /\ oplog' = ValidationLog(ok)
           ELSE IF ~s3_ok
           THEN /\ resp' = Response("album", e, phone, uuid, 500, {})
                /\ oplog' = ValidationLog(ok) \o head
           ELSE IF ~HasObject(s3, s3_key)
           THEN /\ resp' = Response("album", e, phone, uuid, 404, {})
                /\ oplog' = ValidationLog(ok) \o head
           ELSE /\ resp' = Response("album", e, phone, uuid, 200, {o \in s3 : o.k = s3_key})
                /\ oplog' = ValidationLog(ok) \o head
                               \o <<Call("get_object", "personalized-albums")>>
        /\ UNCHANGED <<events, s3, guest_list, used_uuids>>

\* albums.py get_personalized_album_photos: the presigned URLs of the images
\* below "{path}personalized-albums/{phone}/"
get_personalized_album_photos(e, phone, uuid, s3_ok) ==
    LET event == get_event_by_id(e)
        path == generate_event_folder_path(event)
        ok == validate_guest_by_uuid_and_phone_number(path, uuid, phone)
        found == ListObjects(s3, path, "personalized-albums", phone)
        list == <<Call("list_objects_v2", "personalized-albums")>>
    IN  /\ IF event = NoEvent
           THEN /\ resp' = Response("photos", e, phone, uuid, 500, {})
                /\ oplog' = <<>>
           ELSE IF ~ok
           THEN /\ resp' = Response("photos", e, phone, uuid, 403, {})
                /\ oplog' = ValidationLog(ok)
           ELSE IF ~s3_ok
           THEN /\ resp' = Response("photos", e, phone, uuid, 500, {})
                /\ oplog' = ValidationLog(ok) \o list
           ELSE /\ resp' = Response("photos", e, phone, uuid, 200,
                               {o \in found : o.k.name.ext \in ImageExts})
                /\ oplog' = ValidationLog(ok) \o list
        /\ UNCHANGED <<events, s3, guest_list, used_uuids>>

\* ----------------------------------------------- the delivery specification
\* what the pipeline has published when the requests arrive: nothing, one image,
\* or an image and a file that is no image, all for guest p1 of event e1
PublishedBefore ==
    { {},
      { [k |-> Key("e1", "personalized-albums", "p1", FileName(<<"a">>, "jpg")), v |-> 1, sse |-> KMS] },
      { [k |-> Key("e1", "personalized-albums", "p1", FileName(<<"a">>, "jpg")), v |-> 1, sse |-> KMS],
        [k |-> Key("e1", "personalized-albums", "p1", FileName(<<"c">>, "txt")), v |-> 1, sse |-> KMS] } }

InitDeliver ==
    /\ events = [e \in Events |-> NewEvent(e, "alice")]
    /\ \E pub \in PublishedBefore :
           s3 = create_event_folder(create_event_folder({}, "e1"), "e2") \cup pub
    /\ guest_list = [e \in Events |-> <<>>]
    /\ resp = NoResponse
    /\ oplog = <<>>
    /\ used_uuids = {}
    /\ submitters = <<>>
    /\ pipeline = <<>>
    /\ environ = None
    /\ outbox = <<>>
    /\ uploaders = <<>>
    /\ NoPayments
    /\ NoImports

NextDeliver ==
    /\ UNCHANGED <<submitters, pipeline, environ, outbox, uploaders, PaymentVars, ImportVars>>
    /\  \/ \E e \in Events, n \in GuestNames, ph \in Phones, u \in UUIDs, ok \in BOOLEAN :
               guests_submit_guest(e, n, ph, u, ok)
        \/ \E e \in Events, n \in GuestNames, ph \in Phones, u \in UUIDs, ok \in BOOLEAN :
               events_submit_guest(e, n, ph, u, ok)
        \/ \E e \in Events, ph \in Phones, id \in PresentedUuids, ok \in BOOLEAN :
               get_personalized_album(e, ph, id, ok)
        \/ \E e \in Events, ph \in Phones, id \in PresentedUuids, ok \in BOOLEAN :
               get_personalized_album_photos(e, ph, id, ok)

SpecDeliver == InitDeliver /\ [][NextDeliver]_vars

DeliveryOps == {"album", "photos"}

\* the roster of the answered request holds an entry with the presented phone
\* and the presented opaque id
ExactPairOnFile ==
    \E i \in DOMAIN guest_list[resp.ev] :
        /\ guest_list[resp.ev][i].phone = resp.phone
        /\ guest_uuid_of(guest_list[resp.ev][i]) = resp.uuid

PhoneOnFile ==
    \E i \in DOMAIN guest_list[resp.ev] : guest_list[resp.ev][i].phone = resp.phone

UuidOnFile ==
    \E i \in DOMAIN guest_list[resp.ev] : guest_uuid_of(guest_list[resp.ev][i]) = resp.uuid

\* C1: a delivery endpoint answers 200 only when one roster entry of the event
\* carries both the presented phone and the presented opaque id; every other
\* request (right phone with a wrong id, right id with a wrong phone) is
\* answered 403 and carries no bytes.
C1_ExactPairOnly ==
    resp.op \in DeliveryOps =>
        /\ resp.status = 200 => ExactPairOnFile
        /\ ~ExactPairOnFile => resp.status = 403 /\ resp.body = {}

\* a request whose phone is on file and whose id is on file, but not in the
\* same entry, was answered 403
C1_Witness ==
    /\ resp.op = "album"
    /\ PhoneOnFile /\ UuidOnFile /\ ~ExactPairOnFile
    /\ resp.status = 403

IsResultRead(c) == c.dir = "personalized-albums"

\* C2: in a delivery request every object-store call on the guest's result
\* (head, get, list) comes after the successful guest check; a request whose
\* check failed issues none.
C2_ValidateThenFetch ==
    resp.op \in DeliveryOps =>
        \A i \in DOMAIN oplog :
            IsResultRead(oplog[i]) =>
                \E j \in 1..(i - 1) : oplog[j] = Call("validated", "")

\* a checked request went on to read the result
C2_Witness ==
    /\ resp.op \in DeliveryOps
    /\ resp.status = 200
    /\ \E i \in DOMAIN oplog : IsResultRead(oplog[i])

\* ------------------------------------------------------------ album upload
\* an entry of an uploaded ZIP, by what the filter of albums.py:50-53 reads of
\* it: below an ignored folder, an image by its extension, or neither
ZipEntries == {"image", "other", "ignored"}

BadZipFile == <<"BadZipFile">>

RECURSIVE SeqsUpTo(_, _)
SeqsUpTo(S, n) ==
    IF n = 0 THEN {<<>>}
    ELSE LET shorter == SeqsUpTo(S, n - 1)
         IN  shorter \cup {Append(q, x) : q \in {r \in shorter : Len(r) = n - 1}, x \in S}

\* the archives a photographer uploads: a file that is no ZIP, or a name list
UploadedArchives == {BadZipFile} \cup SeqsUpTo(ZipEntries, MaxImages + 1)

\* albums.py:51-53: the names kept as images
image_files(namelist) == SelectSeq(namelist, LAMBDA f : f = "image")

\* albums.py:69,75 "{event_folder_path}album/{index}{file_ext}"
album_image_key(path, index) == Key(path, "album", "", FileName(<<ToString(index)>>, "jpg"))

\* events.py:185 "{event['folder']}album/{album.filename}"
album_file_key(path, filename) == Key(path, "album", "", filename)

EVENT_ALBUM_ZIP == FileName(<<"event_album">>, "zip")

\* the store after images 1..n of an upload were written
RECURSIVE UploadImages(_, _, _)
UploadImages(store, path, n) ==
    IF n = 0 THEN store
    ELSE PutObject(UploadImages(store, path, n - 1), album_image_key(path, n), 0)

\* dynamodb_service.update_event_status: SET #status = :status
SetStatus(table, e, status) == [table EXCEPT ![e].status = status]

\* dynamodb_service.py:67 events_table.put_item(Item = event_item): the item
\* with that event_id is written, whether or not one is stored
put_item(table, event_item) == [table EXCEPT ![event_item.event_id] = event_item]

\* events.py create_event: a new uuid4 id, the folder markers, then save_event
create_event(e, owner, date_ok) ==
    /\ events[e] = NoEvent
    /\ IF date_ok
       THEN /\ s3' = create_event_folder(s3, e)
            /\ events' = put_item(events, NewEvent(e, owner))
            /\ resp' = Answer("create_event", e, 200, "")
       ELSE /\ resp' = Answer("create_event", e, 500, "Error creating event")
            /\ UNCHANGED <<events, s3>>
    /\ oplog' = <<>>
    /\ UNCHANGED <<guest_list, used_uuids>>

\* dynamodb_service.update_event_status called on its own; the upload handlers
\* pass ALBUM_UPLOADED themselves, the completion action passes COMPLETED
update_event_status(e, status) ==
    /\ events[e] # NoEvent
    /\ events' = SetStatus(events, e, status)
    /\ resp' = Answer("update_event_status", e, 200, status)
    /\ oplog' = <<>>
    /\ UNCHANGED <<s3, guest_list, used_uuids>>

\* albums.py upload_event_album without the check of the owner
albums_upload_event_album_any_user(e, current_user, zip, fail_at) ==
    LET event == get_event_by_id(e)
        images == IF zip = BadZipFile THEN <<>> ELSE image_files(zip)
        path == generate_event_folder_path(event)
        op == "albums_upload"
        Reply(status, detail) ==
            [Answer(op, e, status, detail) EXCEPT !.authorization = current_user]
    IN  /\ fail_at <= Len(images)
        /\ IF event = NoEvent
           THEN /\ resp' = Reply(404, "Event not found")
                /\ UNCHANGED <<events, s3>>
           ELSE IF event.status = ALBUM_UPLOADED
           THEN /\ resp' = Reply(400, "An album has already been uploaded for this event.")
                /\ UNCHANGED <<events, s3>>
           ELSE IF zip = BadZipFile
           THEN /\ resp' = Reply(400, "Invalid ZIP file format.")
                /\ UNCHANGED <<events, s3>>
           ELSE IF images = <<>>
           THEN /\ resp' = Reply(400, "No valid images found in the ZIP file.")
                /\ UNCHANGED <<events, s3>>
           ELSE IF Len(images) > event.num_images
           THEN /\ resp' = Reply(400, "exceeding the allowed limit")
                /\ UNCHANGED <<events, s3>>
           ELSE IF fail_at > 0
           THEN /\ s3' = UploadImages(s3, path, fail_at - 1)
                /\ resp' = Reply(500, "Error processing album")
                /\ UNCHANGED events
           ELSE /\ s3' = UploadImages(s3, path, Len(images))
                /\ events' = SetStatus(events, e, ALBUM_UPLOADED)
                /\ resp' = [Reply(200, "Album uploaded successfully!")
                               EXCEPT !.body = {[images_processed |-> Len(images)]}]
        /\ oplog' = <<>>
        /\ UNCHANGED <<guest_list, used_uuids>>

\* albums.py upload_event_album with the status set before the images are stored
albums_upload_event_album_status_first(e, current_user, zip, fail_at) ==
    LET event == get_event_by_id(e)
        images == IF zip = BadZipFile THEN <<>> ELSE image_files(zip)
        path == generate_event_folder_path(event)
        op == "albums_upload"
        Reply(status, detail) ==
            [Answer(op, e, status, detail) EXCEPT !.authorization = current_user]
    IN  /\ fail_at <= Len(images)
        /\ IF event = NoEvent
           THEN /\ resp' = Reply(404, "Event not found")
                /\ UNCHANGED <<events, s3>>
           ELSE IF event.email # current_user
           THEN /\ resp' = Reply(403, "You are not authorized to upload to this event")
                /\ UNCHANGED <<events, s3>>
           ELSE IF event.status = ALBUM_UPLOADED
           THEN /\ resp' = Reply(400, "An album has already been uploaded for this event.")
                /\ UNCHANGED <<events, s3>>
           ELSE IF zip = BadZipFile
           THEN /\ resp' = Reply(400, "Invalid ZIP file format.")
                /\ UNCHANGED <<events, s3>>
           ELSE IF images = <<>>
           THEN /\ resp' = Reply(400, "No valid images found in the ZIP file.")
                /\ UNCHANGED <<events, s3>>
           ELSE IF Len(images) > event.num_images
           THEN /\ resp' = Reply(400, "exceeding the allowed limit")
                /\ UNCHANGED <<events, s3>>
           ELSE IF fail_at > 0
           THEN /\ s3' = UploadImages(s3, path, fail_at - 1)
                /\ resp' = Reply(500, "Error processing album")
                /\ events' = SetStatus(events, e, ALBUM_UPLOADED)
           ELSE /\ s3' = UploadImages(s3, path, Len(images))
                /\ events' = SetStatus(events, e, ALBUM_UPLOADED)
                /\ resp' = [Reply(200, "Album uploaded successfully!")
                               EXCEPT !.body = {[images_processed |-> Len(images)]}]
        /\ oplog' = <<>>
        /\ UNCHANGED <<guest_list, used_uuids>>

\* albums.py upload_event_album; fail_at = k > 0: the upload of image k raises
albums_upload_event_album(e, current_user, zip, fail_at) ==
    LET event == get_event_by_id(e)
        images == IF zip = BadZipFile THEN <<>> ELSE image_files(zip)
        path == generate_event_folder_path(event)
        op == "albums_upload"
        Reply(status, detail) ==
            [Answer(op, e, status, detail) EXCEPT !.authorization = current_user]
    IN  /\ fail_at <= Len(images)
        /\ IF event = NoEvent
           THEN /\ resp' = Reply(404, "Event not found")
                /\ UNCHANGED <<events, s3>>
           ELSE IF event.email # current_user
           THEN /\ resp' = Reply(403, "You are not authorized to upload to this event")
                /\ UNCHANGED <<events, s3>>
           ELSE IF event.status = ALBUM_UPLOADED
           THEN /\ resp' = Reply(400, "An album has already been uploaded for this event.")
                /\ UNCHANGED <<events, s3>>
           ELSE IF zip = BadZipFile
           THEN /\ resp' = Reply(400, "Invalid ZIP file format.")
                /\ UNCHANGED <<events, s3>>
           ELSE IF images = <<>>
           THEN /\ resp' = Reply(400, "No valid images found in the ZIP file.")
                /\ UNCHANGED <<events, s3>>
           ELSE IF Len(images) > event.num_images
           THEN /\ resp' = Reply(400, "exceeding the allowed limit")
                /\ UNCHANGED <<events, s3>>
           ELSE IF fail_at > 0
           THEN /\ s3' = UploadImages(s3, path, fail_at - 1)
                /\ resp' = Reply(500, "Error processing album")
                /\ UNCHANGED events
           ELSE /\ s3' = UploadImages(s3, path, Len(images))
                /\ events' = SetStatus(events, e, ALBUM_UPLOADED)
                /\ resp' = [Reply(200, "Album uploaded successfully!")
                               EXCEPT !.body = {[images_processed |-> Len(images)]}]
        /\ oplog' = <<>>
        /\ UNCHANGED <<guest_list, used_uuids>>

\* events.py upload_event_album: the archive is stored as it is, under its own name
events_upload_event_album(e, filename, upload_ok) ==
    LET event == get_event_by_id(e)
        op == "events_upload"
    IN  /\ IF event = NoEvent
           THEN /\ resp' = Answer(op, e, 500, "Error uploading file: 404: Event not found")
                /\ UNCHANGED <<events, s3>>
           ELSE IF ~upload_ok
           THEN /\ resp' = Answer(op, e, 500, "Error uploading file")
                /\ UNCHANGED <<events, s3>>
           ELSE /\ s3' = PutObject(s3, album_file_key(event.event_id, filename), 0)
                /\ events' = SetStatus(events, e, ALBUM_UPLOADED)
                /\ resp' = Answer(op, e, 200, "Album uploaded successfully!")
        /\ oplog' = <<>>
        /\ UNCHANGED <<guest_list, used_uuids>>

InitUpload ==
    /\ events = [e \in Events |-> NoEvent]
    /\ s3 = {}
    /\ guest_list = [e \in Events |-> <<>>]
    /\ resp = NoResponse
    /\ oplog = <<>>
    /\ used_uuids = {}
    /\ submitters = <<>>
    /\ pipeline = <<>>
    /\ environ = None
    /\ outbox = <<>>
    /\ uploaders = <<>>
    /\ NoPayments
    /\ NoImports

NextUpload ==
    /\ UNCHANGED <<submitters, pipeline, environ, outbox, uploaders, PaymentVars, ImportVars>>
    /\  \/ \E e \in Events, owner \in Users, ok \in BOOLEAN : create_event(e, owner, ok)
        \/ \E e \in Events : update_event_status(e, COMPLETED)
        \/ \E e \in Events, u \in Users, zip \in UploadedArchives, k \in 0..(MaxImages + 1) :
               albums_upload_event_album(e, u, zip, k)
        \/ \E e \in Events, ok \in BOOLEAN : events_upload_event_album(e, EVENT_ALBUM_ZIP, ok)

SpecUpload == InitUpload /\ [][NextUpload]_vars

UploadOps == {"albums_upload", "events_upload"}

ALREADY_UPLOADED == "An album has already been uploaded for this event."

\* C3: an upload request for an event whose status is AlbumUploaded is
\* rejected with the 400 'An album has already been uploaded' error (or, by
\* the authorization check before it, with 403), writes no object and leaves
\* the status unchanged, at every upload entry point.
C3_ReuploadRejected ==
    [][(resp'.op \in UploadOps /\ events[resp'.ev].status = ALBUM_UPLOADED) =>
           /\ \/ resp'.status = 400 /\ resp'.detail = ALREADY_UPLOADED
              \/ resp'.status = 403
           /\ s3' = s3
           /\ events' = events]_vars

\* the place of a status in PendingUpload -> AlbumUploaded -> Completed
StatusRank(status) ==
    CASE status = PENDING_UPLOAD -> 1
      [] status = ALBUM_UPLOADED -> 2
      [] status = COMPLETED -> 3
      [] OTHER -> 0

\* C4: no step moves the status of an event to a value earlier in
\* PendingUpload -> AlbumUploaded -> Completed than the one it had.
C4_StatusOnlyForward ==
    [][\A e \in Events :
           events[e] # NoEvent =>
               StatusRank(events'[e].status) >= StatusRank(events[e].status)]_vars

\* ------------------------------------------- concurrent guest submissions
\* submit_guest as the steps other requests can interleave with: the photo
\* upload, then in append_to_guest_list_in_s3 the get_object and the put_object
Submitters == 1..NumSubmitters

NoSubmission == GuestSubmission("", "", Key("", "", "", NoName))

Submitter(pc, e, entry, local) == [pc |-> pc, ev |-> e, entry |-> entry, local |-> local]

\* the uuid4 of request i: a value no other request draws
uuid4(i) == ToString(i)

\* a submission that goes on to the roster when the upload of the photo failed
submit_guest_upload_unchecked(i, e, name, phone, upload_ok) ==
    LET event == get_event_by_id(e)
        path == generate_event_folder_path(event)
        key == guests_photo_key(path, phone, uuid4(i))
    IN  /\ submitters[i].pc = "start"
        /\ IF event = NoEvent
           THEN /\ submitters' = [submitters EXCEPT ![i].pc = "failed"]
                /\ UNCHANGED s3
           ELSE /\ s3' = IF upload_ok THEN PutObject(s3, key, 0) ELSE s3
                /\ submitters' = [submitters EXCEPT
                       ![i] = Submitter("read", path, GuestSubmission(name, phone, key), <<>>)]
        /\ UNCHANGED <<events, guest_list, resp, oplog, used_uuids, pipeline, environ, outbox, uploaders, PaymentVars, ImportVars>>

\* guests.py:55-73: look the event up, store the photo, build the roster entry
submit_guest_upload(i, e, name, phone, upload_ok) ==
    LET event == get_event_by_id(e)
        path == generate_event_folder_path(event)
        key == guests_photo_key(path, phone, uuid4(i))
    IN  /\ submitters[i].pc = "start"
        /\ IF event = NoEvent \/ ~upload_ok
           THEN /\ submitters' = [submitters EXCEPT ![i].pc = "failed"]
                /\ UNCHANGED s3
           ELSE /\ s3' = PutObject(s3, key, 0)
                /\ submitters' = [submitters EXCEPT
                       ![i] = Submitter("read", path, GuestSubmission(name, phone, key), <<>>)]
        /\ UNCHANGED <<events, guest_list, resp, oplog, used_uuids, pipeline, environ, outbox, uploaders, PaymentVars, ImportVars>>

\* s3_service.py:170-176: get_object and json.loads, [] on NoSuchKey, then the
\* append to the list in memory
append_to_guest_list_read(i) ==
    /\ submitters[i].pc = "read"
    /\ submitters' = [submitters EXCEPT
           ![i].pc = "write",
           ![i].local = Append(guest_list[submitters[i].ev], submitters[i].entry)]
    /\ UNCHANGED <<events, s3, guest_list, resp, oplog, used_uuids, pipeline, environ, outbox, uploaders, PaymentVars, ImportVars>>

\* s3_service.py:178-183: put_object of the list held in memory
append_to_guest_list_write(i) ==
    /\ submitters[i].pc = "write"
    /\ guest_list' = [guest_list EXCEPT ![submitters[i].ev] = submitters[i].local]
    /\ s3' = put_guest_list(s3, submitters[i].ev)
    /\ submitters' = [submitters EXCEPT ![i].pc = "done"]
    /\ UNCHANGED <<events, resp, oplog, used_uuids, pipeline, environ, outbox, uploaders, PaymentVars, ImportVars>>

InitRoster ==
    /\ events = [e \in Events |-> NewEvent(e, "alice")]
    /\ s3 = create_event_folder(create_event_folder({}, "e1"), "e2")
    /\ guest_list = [e \in Events |-> <<>>]
    /\ resp = NoResponse
    /\ oplog = <<>>
    /\ used_uuids = {}
    /\ submitters = [i \in Submitters |-> Submitter("start", "", NoSubmission, <<>>)]
    /\ pipeline = <<>>
    /\ environ = None
    /\ outbox = <<>>
    /\ uploaders = <<>>
    /\ NoPayments
    /\ NoImports

NextRoster ==
    \/ \E i \in Submitters, e \in Events, n \in GuestNames, ph \in Phones, ok \in BOOLEAN :
           submit_guest_upload(i, e, n, ph, ok)
    \/ \E i \in Submitters : append_to_guest_list_read(i)
    \/ \E i \in Submitters : append_to_guest_list_write(i)

SpecRoster == InitRoster /\ [][NextRoster]_vars

\* the submissions to event e whose append_to_guest_list_in_s3 has returned
Appended(e) == {i \in Submitters : submitters[i].pc = "done" /\ submitters[i].ev = e}

AllSubmitted == \A i \in Submitters : submitters[i].pc \in {"done", "failed"}

\* C5: once N interleaved submissions to an event have completed, the stored
\* roster of the event holds exactly N new entries, one per submission.
C5_NoLostSubmission ==
    AllSubmitted =>
        \A e \in Events :
            /\ Len(guest_list[e]) = Cardinality(Appended(e))
            /\ \A i \in Appended(e) :
                   \E j \in DOMAIN guest_list[e] : guest_list[e][j] = submitters[i].entry

\* ------------------------------------------------ personalization pipeline
\* faceRecognitionIntegrationService.create_and_upload_personalized_albums
\* (event_prefix, phone_number), one stage per step.

\* a member of an archive, or a file of the workspace: "{dir}/{stem}.{ext}"
Entry(dir, stem, ext) == [dir |-> dir, name |-> FileName(stem, ext)]

\* os.path.basename
basename(f) == f.name

\* what the recognition service can put into its result archive
ResultEntries ==
    { Entry("", <<"a">>, "jpg"), Entry("", <<"b">>, "png"),
      Entry("sub", <<"a">>, "jpg"), Entry("", <<"c">>, "txt") }

IsNameList(q) == \A i, j \in DOMAIN q : i # j => q[i] # q[j]

\* the name lists of the archives the service answers with
ResultArchives == {q \in SeqsUpTo(ResultEntries, MaxImages) : IsNameList(q)}

\* the answers of the recognition service
Answered(status, is_zip, namelist) == [status |-> status, is_zip |-> is_zip, namelist |-> namelist]

RecognitionAnswers ==
    {Answered("ConnectionError", FALSE, <<>>), Answered("non-200", FALSE, <<>>),
     Answered("200", FALSE, <<>>)}
        \cup {Answered("200", TRUE, q) : q \in ResultArchives}

EVENT_ALBUM_FILE == Entry("", <<"event_album">>, "zip")
GUEST_PHOTO_FILE == Entry("", <<"guest_photo">>, "jpg")
RESULT_ZIP_FILE == Entry("", <<"personalized_album">>, "zip")

\* :39-41, the object keys the invocation works on
event_album_s3_path(base_path) == Key(base_path, "album", "", EVENT_ALBUM_ZIP)
guest_photo_s3_path(base_path) == Key(base_path, "guest-submissions", "", NoName)
personalized_image_key(base_path, phone, image) ==
    Key(base_path, "personalized-albums", phone, basename(image))

NoRun == [ev |-> "", phone |-> "", outcome |-> ""]

\* what requests.post returned: the status and whether the body is an archive
Received(status, is_zip) == [status |-> status, is_zip |-> is_zip]
NoAnswer == Received("", FALSE)

Idle ==
    [pc |-> "idle", ev |-> "", phone |-> "", has_dir |-> FALSE, temp_dir |-> {},
     images |-> <<>>, attempts |-> 0, outcome |-> "", run |-> 0, before |-> {},
     prev |-> NoRun, stages |-> <<>>, response |-> NoAnswer]

\* the except / finally of the invocation: the error is re-raised once
\* cleanup_temp_directory ran
RaiseNoFinally(p, error) == [p EXCEPT !.pc = "idle", !.outcome = error]

Raise(p, error) == [p EXCEPT !.pc = "cleanup", !.outcome = error]

PipelineFrame ==
    UNCHANGED <<events, guest_list, resp, oplog, used_uuids, submitters, environ, outbox, uploaders, PaymentVars, ImportVars>>

\* :35 tempfile.mkdtemp, and the paths of :38-41
pipeline_start(e, phone) ==
    /\ pipeline.pc = "idle"
    /\ pipeline.run < MaxRuns
    /\ pipeline' =
           [Idle EXCEPT !.pc = "download_album", !.ev = e, !.phone = phone,
                        !.has_dir = TRUE, !.run = pipeline.run + 1,
                        !.before = ListObjects(s3, e, "personalized-albums", phone),
                        !.prev = [ev |-> pipeline.ev, phone |-> pipeline.phone,
                                  outcome |-> pipeline.outcome]]
    /\ UNCHANGED s3
    /\ PipelineFrame

\* the stage an invocation enters, in program order
Enter(p, stage) == [p EXCEPT !.stages = Append(@, stage)]

\* s3_service.download_file_from_s3 with its error printed and not raised
download_file_from_s3_printed(p, s3_key, local, s3_ok, next) ==
    LET q == [p EXCEPT !.temp_dir = @ \cup {local}]
    IN  IF s3_ok /\ HasObject(s3, s3_key)
        THEN [q EXCEPT !.pc = next]
        ELSE [q EXCEPT !.pc = next, !.outcome = "Error downloading file from S3"]

\* s3_service.download_file_from_s3: the local file is opened for writing, then
\* the object is fetched into it
download_file_from_s3(p, s3_key, local, s3_ok, next) ==
    LET q == [p EXCEPT !.temp_dir = @ \cup {local}]
    IN  IF s3_ok /\ HasObject(s3, s3_key)
        THEN [q EXCEPT !.pc = next]
        ELSE Raise(q, "Error downloading file from S3")

\* :45-50 step 1
pipeline_download_album(s3_ok) ==
    /\ pipeline.pc = "download_album"
    /\ pipeline' = download_file_from_s3(Enter(pipeline, "fetch_album"),
                                         event_album_s3_path(pipeline.ev),
                                         EVENT_ALBUM_FILE, s3_ok, "download_photo")
    /\ UNCHANGED s3
    /\ PipelineFrame

\* :52-57 step 2
pipeline_download_photo(s3_ok) ==
    /\ pipeline.pc = "download_photo"
    /\ pipeline' = download_file_from_s3(Enter(pipeline, "fetch_photo"),
                                         guest_photo_s3_path(pipeline.ev),
                                         GUEST_PHOTO_FILE, s3_ok, "recognize")
    /\ UNCHANGED s3
    /\ PipelineFrame

\* send_to_face_recognition_service with a body that is no archive read as an
\* archive without members
send_to_face_recognition_service_lenient(p, answer) ==
    LET called == [p EXCEPT !.attempts = @ + 1,
                            !.response = Received(answer.status, answer.is_zip)]
        names == answer.namelist
    IN  IF answer.status # "200"
        THEN Raise(called, "Face recognition service failed")
        ELSE [called EXCEPT
                 !.temp_dir = @ \cup {RESULT_ZIP_FILE} \cup {names[i] : i \in DOMAIN names},
                 !.images = names,
                 !.pc = "upload"]

\* send_to_face_recognition_service: one POST; a 200 body is written to
\* personalized_album.zip and extracted into the workspace
send_to_face_recognition_service(p, answer) ==
    LET called == [p EXCEPT !.attempts = @ + 1,
                            !.response = Received(answer.status, answer.is_zip)]
        names == answer.namelist
    IN  IF answer.status # "200"
        THEN Raise(called, "Face recognition service failed")
        ELSE IF ~answer.is_zip
        THEN Raise([called EXCEPT !.temp_dir = @ \cup {RESULT_ZIP_FILE}], "BadZipFile")
        ELSE [called EXCEPT
                 !.temp_dir = @ \cup {RESULT_ZIP_FILE} \cup {names[i] : i \in DOMAIN names},
                 !.images = names,
                 !.pc = "upload"]

\* :59-61 step 3
pipeline_recognize(answer) ==
    /\ pipeline.pc = "recognize"
    /\ pipeline' = send_to_face_recognition_service(Enter(pipeline, "recognize"), answer)
    /\ UNCHANGED s3
    /\ PipelineFrame

\* s3_service.upload_images_to_s3: the store after images 1..n were uploaded
RECURSIVE upload_images_to_s3(_, _, _, _, _, _)
upload_images_to_s3(store, images, base_path, phone, body, n) ==
    IF n = 0 THEN store
    ELSE PutObject(upload_images_to_s3(store, images, base_path, phone, body, n - 1),
                   personalized_image_key(base_path, phone, images[n]), body)

\* step 4 with an empty list of images taken as a failure
pipeline_upload_nonempty(fail_at) ==
    LET n == Len(pipeline.images)
        p == Enter(pipeline, "publish")
    IN  /\ pipeline.pc = "upload"
        /\ fail_at <= n
        /\ IF fail_at > 0 \/ n = 0
           THEN /\ s3' = upload_images_to_s3(s3, pipeline.images, pipeline.ev,
                                             pipeline.phone, pipeline.run,
                                             IF n = 0 THEN 0 ELSE fail_at - 1)
                /\ pipeline' = Raise(p, "Error uploading image")
           ELSE /\ s3' = upload_images_to_s3(s3, pipeline.images, pipeline.ev,
                                             pipeline.phone, pipeline.run, n)
                /\ pipeline' = [p EXCEPT !.pc = "cleanup", !.outcome = "ok"]
        /\ PipelineFrame

\* :78-81 step 4; fail_at = k > 0: the upload of image k raises
pipeline_upload(fail_at) ==
    LET n == Len(pipeline.images)
        p == Enter(pipeline, "publish")
    IN  /\ pipeline.pc = "upload"
        /\ fail_at <= n
        /\ IF fail_at > 0
           THEN /\ s3' = upload_images_to_s3(s3, pipeline.images, pipeline.ev,
                                             pipeline.phone, pipeline.run, fail_at - 1)
                /\ pipeline' = Raise(p, "Error uploading image")
           ELSE /\ s3' = upload_images_to_s3(s3, pipeline.images, pipeline.ev,
                                             pipeline.phone, pipeline.run, n)
                /\ pipeline' = [p EXCEPT !.pc = "cleanup", !.outcome = "ok"]
        /\ PipelineFrame

\* cleanup_temp_directory: shutil.rmtree(temp_dir)
cleanup_temp_directory(p) == [p EXCEPT !.has_dir = FALSE, !.temp_dir = {}]

\* :87-89 the finally clause; the invocation then returns or re-raises
pipeline_cleanup ==
    /\ pipeline.pc = "cleanup"
    /\ pipeline' = [cleanup_temp_directory(pipeline) EXCEPT !.pc = "idle"]
    /\ UNCHANGED s3
    /\ PipelineFrame

\* the state the invocations start from: both events created, the album of e1
\* stored as album/event_album.zip, and guest bob (p1) submitted to e1
BOB_UUID == <<"p1", "u1">>

Init ==
    /\ events = [e \in Events |->
           IF e = "e1" THEN [NewEvent(e, "alice") EXCEPT !.status = ALBUM_UPLOADED]
           ELSE NewEvent(e, "alice")]
    /\ s3 = put_guest_list(
               PutObject(
                   PutObject(create_event_folder(create_event_folder({}, "e1"), "e2"),
                             event_album_s3_path("e1"), 0),
                   guests_photo_key("e1", "p1", "u1"), 0),
               "e1")
    /\ guest_list = [e \in Events |->
           IF e = "e1"
           THEN <<GuestSubmission("bob", "p1", guests_photo_key("e1", "p1", "u1"))>>
           ELSE <<>>]
    /\ resp = NoResponse
    /\ oplog = <<>>
    /\ used_uuids = {"u1"}
    /\ submitters = <<>>
    /\ pipeline = Idle
    /\ environ = None
    /\ outbox = <<>>
    /\ uploaders = <<>>
    /\ NoPayments
    /\ NoImports

NextPipeline ==
    \/ \E e \in Events, ph \in Phones : pipeline_start(e, ph)
    \/ \E ok \in BOOLEAN : pipeline_download_album(ok)
    \/ \E ok \in BOOLEAN : pipeline_download_photo(ok)
    \/ \E answer \in RecognitionAnswers : pipeline_recognize(answer)
    \/ \E k \in 0..MaxImages : pipeline_upload(k)
    \/ pipeline_cleanup

\* the pipeline alone
SpecPipeline == Init /\ [][NextPipeline]_vars

\* the requests of the guest on file and of a stranger
AskedUuids == {BOB_UUID, <<"p2", "u1">>}

NextFetch ==
    /\ UNCHANGED <<submitters, pipeline, environ, outbox, uploaders, PaymentVars, ImportVars>>
    /\  \/ \E e \in Events, ph \in Phones, id \in AskedUuids, ok \in BOOLEAN :
               get_personalized_album(e, ph, id, ok)
        \/ \E e \in Events, ph \in Phones, id \in AskedUuids, ok \in BOOLEAN :
               get_personalized_album_photos(e, ph, id, ok)

Next == NextPipeline \/ NextFetch

\* the pipeline and the delivery endpoints
Spec == Init /\ [][Next]_vars

\* the objects below the prefix of the invocation's guest
Published == ListObjects(s3, pipeline.ev, "personalized-albums", pipeline.phone)

NamesOf(objects) == {o.k.name : o \in objects}

\* the images of the invocation's recognition call, by the name they are stored under
Matched == {basename(pipeline.images[i]) : i \in DOMAIN pipeline.images}

Returned(outcome) == pipeline.pc = "idle" /\ pipeline.outcome = outcome

\* C6: after a second successful run for the same (event, guest) the objects
\* below the guest's prefix are exactly the images matched by that run.
C6_RerunReplaces ==
    (/\ Returned("ok")
     /\ pipeline.prev = [ev |-> pipeline.ev, phone |-> pipeline.phone, outcome |-> "ok"])
        => NamesOf(Published) = Matched

\* C7: a fetch by the guest on file, made once the pipeline has returned from
\* a successful run for that guest, answers 200 with exactly the images of
\* that run's recognition call.
C7_PublishThenFetch ==
    [][(/\ Returned("ok")
        /\ pipeline' = pipeline
        /\ resp'.op \in DeliveryOps
        /\ resp'.ev = pipeline.ev /\ resp'.phone = pipeline.phone
        /\ validate_guest_by_uuid_and_phone_number(resp'.ev, resp'.uuid, resp'.phone)
        /\ resp'.status # 500)
           => /\ resp'.status = 200
              /\ NamesOf(resp'.body) = Matched
              /\ \A o \in resp'.body : o.v = pipeline.run]_vars

\* C8: an invocation that failed in the upload of an image leaves none of its
\* images below the guest's prefix.
C8_NoPartialResult ==
    Returned("Error uploading image") => \A o \in Published : o.v # pipeline.run

\* C9: the recognition call is made at most 3 times; an invocation gives up
\* on an unavailable service only after the third failed attempt, and has
\* then published nothing.
C9_BoundedRetry ==
    /\ pipeline.attempts <= 3
    /\ Returned("Face recognition service failed") =>
           /\ pipeline.attempts = 3
           /\ \A o \in Published : o.v # pipeline.run

legacy_album_key(base_path, phone) ==
    Key(base_path, "personalized-albums", "", FileName(<<phone, "album">>, "zip"))

\* process_and_upload_album, run to its return: the album is downloaded, sent
\* with the caller's local guest photo in one POST, and the answered bytes are
\* stored as one archive; the finally clause empties the workspace
process_and_upload_album(e, phone, s3_ok, status, upload_ok) ==
    LET p0 == [Idle EXCEPT !.ev = e, !.phone = phone, !.run = pipeline.run + 1,
                           !.before = ListObjects(s3, e, "personalized-albums", phone),
                           !.prev = [ev |-> pipeline.ev, phone |-> pipeline.phone,
                                     outcome |-> pipeline.outcome]]
        p1 == Enter(p0, "fetch_album")
        p2 == [Enter(p1, "recognize") EXCEPT !.attempts = 1,
                                             !.response = Received(status, FALSE)]
        p3 == Enter(p2, "publish")
    IN  /\ pipeline.pc = "idle"
        /\ pipeline.run < MaxRuns
        /\ IF ~(s3_ok /\ HasObject(s3, event_album_s3_path(e)))
           THEN /\ pipeline' = [p1 EXCEPT !.outcome = "Error downloading file from S3"]
                /\ UNCHANGED s3
           ELSE IF status # "200"
           THEN /\ pipeline' = [p2 EXCEPT !.outcome = "Face recognition service failed"]
                /\ UNCHANGED s3
           ELSE IF ~upload_ok
           THEN /\ pipeline' = [p3 EXCEPT !.outcome = "Error uploading file"]
                /\ UNCHANGED s3
           ELSE /\ pipeline' = [p3 EXCEPT !.outcome = "ok"]
                /\ s3' = PutObject(s3, legacy_album_key(e, phone), pipeline.run + 1)
        /\ PipelineFrame

NextStages ==
    \/ NextPipeline
    \/ \E e \in Events, ph \in Phones, ok \in BOOLEAN, up \in BOOLEAN,
          status \in {"200", "non-200", "ConnectionError"} :
           process_and_upload_album(e, ph, ok, status, up)

\* both variants of the pipeline
SpecStages == Init /\ [][NextStages]_vars

\* the stages of an invocation, in their order; the earlier variant is handed
\* the guest photo as a local file and has no stage that fetches it
STAGES == <<"fetch_album", "fetch_photo", "recognize", "publish">>
LEGACY_STAGES == <<"fetch_album", "recognize", "publish">>

IsPrefix(q, r) == Len(q) <= Len(r) /\ \A i \in DOMAIN q : q[i] = r[i]

\* the objects the current invocation has written below personalized-albums
WrittenByRun == {o \in s3 : o.k.dir = "personalized-albums" /\ o.v = pipeline.run}

DOWNLOAD_FAILED == "Error downloading file from S3"
RECOGNITION_FAILED == {"Face recognition service failed", "BadZipFile"}

\* C11: the stages of an invocation run in the order fetch album, fetch guest
\* photo, recognize, publish; after a failed download the recognition service
\* is not called, and after a failed download or a failed recognition call
\* nothing is written below personalized-albums.
C11_StagesInOrder ==
    /\ IsPrefix(pipeline.stages, STAGES) \/ IsPrefix(pipeline.stages, LEGACY_STAGES)
    /\ pipeline.outcome = DOWNLOAD_FAILED =>
           /\ pipeline.attempts = 0
           /\ \A i \in DOMAIN pipeline.stages : pipeline.stages[i] \notin {"recognize", "publish"}
           /\ WrittenByRun = {}
    /\ pipeline.outcome \in RECOGNITION_FAILED =>
           /\ \A i \in DOMAIN pipeline.stages : pipeline.stages[i] # "publish"
           /\ WrittenByRun = {}

\* an invocation whose guest-photo download failed has returned
C11_Witness ==
    /\ Returned(DOWNLOAD_FAILED)
    /\ pipeline.stages = <<"fetch_album", "fetch_photo">>

\* ------------------------------------------------- the identity of a result
\* faceRecognitionIntegrationService.py:41 "{base_path}personalized-albums/{phone_number}",
\* the prefix the images of an invocation are stored below
personalized_album_s3_path(base_path, phone) ==
    Key(base_path, "personalized-albums", phone, NoName)

\* C12: two distinct guest submissions of one event, also when they carry the
\* same phone number, have their results stored under distinct keys: the prefix
\* the pipeline publishes below and the key the delivery endpoint reads differ
\* between the two.
C12_DistinctResultKeys ==
    \A e \in Events :
        \A i, j \in DOMAIN guest_list[e] :
            i # j =>
                /\ personalized_album_s3_path(e, guest_list[e][i].phone)
                       # personalized_album_s3_path(e, guest_list[e][j].phone)
                /\ album_zip_key(e, guest_list[e][i].phone)
                       # album_zip_key(e, guest_list[e][j].phone)

\* ---------------------------------------------------------- the batch send
\* guests.py send_personalized_albums and send_sms_message

\* a roster entry whose "photo_url" is missing: guest.get("photo_url") is None
NoPhoto == Key("", "", "", NoName)

\* the header values a client sends (None: no Authorization header) and the
\* values the deployment is configured with (None: the variable is unset)
AuthorizationHeaders == {None, "secret", "wrong"}
TokenValues == {None, "secret"}

\* the URL "http://localhost:8000{route}/{arg}/{arg}...", each path argument
\* held as the tuple of its parts
Link(route, args) == [route |-> route, args |-> args]

\* albums.py:100 the route of get_personalized_album and its path parameters
ALBUM_ROUTE == "/albums/get-personalized-album"
ALBUM_ROUTE_PARAMS == <<"event_id", "phone_number", "guest_uuid">>

\* guests.py:126 the link sent to a guest
personal_album_link(event_id, guest_uuid) == Link(ALBUM_ROUTE, <<<<event_id>>, guest_uuid>>)

\* a call of twilio_client.messages.create and whether it returned
Message(to, name, link, delivered) ==
    [to |-> to, name |-> name, link |-> link, delivered |-> delivered]

\* guests.py:138-156 send_sms_message: True, or False when the gateway raises
send_sms_message(gateway_ok) == gateway_ok

\* guests.py:116-129 the loop over the roster after its first n entries;
\* failing: the entries for which the gateway raises
RECURSIVE send_loop(_, _, _, _)
send_loop(event_id, guests, failing, n) ==
    IF n = 0 THEN [sent |-> <<>>, success_count |-> 0, raised |-> FALSE]
    ELSE LET before == send_loop(event_id, guests, failing, n - 1)
             guest == guests[n]
             ok == send_sms_message(n \notin failing)
         IN  IF before.raised THEN before
             ELSE IF guest.phone = "" THEN before
             ELSE IF guest.photo_url = NoPhoto THEN [before EXCEPT !.raised = TRUE]
             ELSE [before EXCEPT
                      !.sent = Append(@, Message(guest.phone, guest.name,
                                   personal_album_link(event_id, guest_uuid_of(guest)), ok)),
                      !.success_count = @ + (IF ok THEN 1 ELSE 0)]

SendAnswer(e, authorization, status, detail, body) ==
    [Answer("send", e, status, detail) EXCEPT !.authorization = authorization, !.body = body]

\* guests.py:86-135 send_personalized_albums
send_personalized_albums(e, authorization, failing) ==
    LET REQUIRED_TOKEN == environ
        event == get_event_by_id(e)
        guests == get_guest_list_from_s3(generate_event_folder_path(event))
        done == send_loop(e, guests, failing, Len(guests))
        failed == "An error occurred while processing the request."
    IN  /\ IF authorization # REQUIRED_TOKEN
           THEN /\ resp' = SendAnswer(e, authorization, 401, "Unauthorized", {})
                /\ outbox' = <<>>
           ELSE IF event = NoEvent \/ guests = <<>>
           THEN /\ resp' = SendAnswer(e, authorization, 500, failed, {})
                /\ outbox' = <<>>
           ELSE IF done.raised
           THEN /\ resp' = SendAnswer(e, authorization, 500, failed, {})
                /\ outbox' = done.sent
           ELSE /\ resp' = SendAnswer(e, authorization, 200, "Successfully sent",
                               {[success_count |-> done.success_count, total |-> Len(guests)]})
                /\ outbox' = done.sent
        /\ oplog' = <<>>
        /\ UNCHANGED <<events, s3, guest_list, used_uuids>>

\* events.py:134-163 get_event_details: the 404 and the 403 are raised inside
\* the try block and leave it as 500
get_event_details(e, current_user) ==
    LET event == get_event_by_id(e)
        op == "get_event_details"
    IN  /\ IF event = NoEvent
           THEN resp' = Answer(op, e, 500, "Error fetching event: 404: Event not found")
           ELSE IF event.email # current_user
           THEN resp' = Answer(op, e, 500, "Error fetching event: 403")
           ELSE resp' = Answer(op, e, 200, event.status)
        /\ oplog' = <<>>
        /\ UNCHANGED <<events, s3, guest_list, used_uuids>>

\* the roster entries a batch send meets: two submissions with one phone, a
\* third guest, an entry with an empty phone and one without a photo_url
SendEntries ==
    { GuestSubmission("bob", "p1", guests_photo_key("e1", "p1", "u1")),
      GuestSubmission("bob", "p1", guests_photo_key("e1", "p1", "u2")),
      GuestSubmission("bob", "p2", guests_photo_key("e1", "p2", "u2")),
      GuestSubmission("bob", "", events_photo_key("e1", "bob", "u2")),
      GuestSubmission("bob", "p2", NoPhoto) }

\* uuid4 gives each stored photo its own name
IsRoster(q) ==
    \A i, j \in DOMAIN q :
        i # j => /\ q[i] # q[j]
                 /\ q[i].photo_url # NoPhoto /\ q[j].photo_url # NoPhoto
                      => q[i].photo_url.name.stem[2] # q[j].photo_url.name.stem[2]

Rosters == {q \in SeqsUpTo(SendEntries, MaxGuests) : IsRoster(q)}

\* event e1 exists with the roster and its photos stored, event e2 does not
InitSend ==
    /\ events = [e \in Events |-> IF e = "e1" THEN NewEvent(e, "alice") ELSE NoEvent]
    /\ \E roster \in Rosters :
           /\ guest_list = [e \in Events |-> IF e = "e1" THEN roster ELSE <<>>]
           /\ s3 = create_event_folder({}, "e1")
                      \cup {[k |-> roster[i].photo_url, v |-> 0, sse |-> KMS] :
                               i \in {j \in DOMAIN roster : roster[j].photo_url # NoPhoto}}
                      \cup (IF roster = <<>> THEN {}
                            ELSE {[k |-> guest_list_key("e1"), v |-> 0, sse |-> NO_SSE]})
           /\ used_uuids = {roster[i].photo_url.name.stem[2] :
                               i \in {j \in DOMAIN roster : roster[j].photo_url # NoPhoto}}
    /\ resp = NoResponse
    /\ oplog = <<>>
    /\ submitters = <<>>
    /\ pipeline = <<>>
    /\ environ \in TokenValues
    /\ outbox = <<>>
    /\ uploaders = <<>>
    /\ NoPayments
    /\ NoImports

NextSend ==
    /\ UNCHANGED <<submitters, pipeline, environ, uploaders, PaymentVars, ImportVars>>
    /\  \/ \E e \in Events, a \in AuthorizationHeaders, failing \in SUBSET (1..MaxGuests) :
               send_personalized_albums(e, a, failing)
        \/ /\ UNCHANGED outbox
           /\  \/ \E e \in Events, u \in Users : get_event_details(e, u)
               \/ \E e \in Events, n \in GuestNames, ph \in Phones, u \in UUIDs, ok \in BOOLEAN :
                      guests_submit_guest(e, n, ph, u, ok)
               \/ \E e \in Events, n \in GuestNames, ph \in Phones, u \in UUIDs, ok \in BOOLEAN :
                      events_submit_guest(e, n, ph, u, ok)
               \/ \E e \in Events, u \in Users, k \in 0..1 :
                      albums_upload_event_album(e, u, <<"image">>, k)
               \/ \E e \in Events, ok \in BOOLEAN : events_upload_event_album(e, EVENT_ALBUM_ZIP, ok)

SpecSend == InitSend /\ [][NextSend]_vars

\* the roster the answered batch send went through
SentRoster == guest_list[resp.ev]

\* the entries a batch send has to attempt: those with a phone number that can
\* be processed
Sendable == {i \in DOMAIN SentRoster :
                SentRoster[i].phone # "" /\ SentRoster[i].photo_url # NoPhoto}

Delivered == {i \in DOMAIN outbox : outbox[i].delivered}

\* C13: a batch send that passed the token check for an event with a roster
\* attempts every entry that has a phone number and can be processed, whatever
\* entries fail, and reports the number of sends that succeeded.
C13_BatchNotAborted ==
    (/\ resp.op = "send"
     /\ resp.status # 401
     /\ events[resp.ev] # NoEvent
     /\ SentRoster # <<>>)
        => /\ Len(outbox) = Cardinality(Sendable)
           /\ resp.status = 200
           /\ \A r \in resp.body : r.success_count = Cardinality(Delivered)

\* C14: one batch send hands the gateway at most one message for a phone
\* number of the event, also when the roster holds that phone more than once.
C14_NoDuplicateSend ==
    resp.op = "send" =>
        \A i, j \in DOMAIN outbox : i # j => outbox[i].to # outbox[j].to

\* C15: a batch send whose operator token is missing, or is not the configured
\* token, is answered 401 and sends nothing, with the token configured or not.
C15_TokenRequired ==
    (/\ resp.op = "send"
     /\ resp.authorization = None \/ resp.authorization # environ)
        => /\ resp.status = 401
           /\ outbox = <<>>
    /\ uploaders = <<>>
    /\ NoPayments
    /\ NoImports

\* C16: every link a batch send builds is a URL of the get_personalized_album
\* route with its three path arguments, the event id, the phone of the entry
\* and the opaque id of the entry, so that the link passes the guest check.
C16_LinkMatchesRoute ==
    resp.op = "send" =>
        \A i \in DOMAIN outbox :
            LET link == outbox[i].link
            IN  /\ link.route = ALBUM_ROUTE
                /\ Len(link.args) = Len(ALBUM_ROUTE_PARAMS)
                /\ link.args[1] = <<resp.ev>>
                /\ link.args[2] = <<outbox[i].to>>
                /\ validate_guest_by_uuid_and_phone_number(resp.ev, link.args[3], outbox[i].to)

\* the handlers that take an event id from the request
BoundaryOps == {"send", "submit_guest", "get_event_details", "albums_upload", "events_upload"}

\* C17: a request for an event id that is not in the directory is answered
\* 404 (a batch send without a valid token: 401), writes nothing to the store
\* and sends no message.
C17_MissingEvent404 ==
    [][(resp'.op \in BoundaryOps /\ events[resp'.ev] = NoEvent)
          => /\ \/ resp'.status = 404
                \/ resp'.op = "send" /\ resp'.status = 401
             /\ s3' = s3
             /\ guest_list' = guest_list
             /\ outbox' = <<>> \/ outbox' = outbox]_vars

\* ------------------------------------------------- encryption of the writes
\* C18: every object the service has written to the store was written with
\* server-side encryption requested.
C18_WritesEncrypted == \A o \in s3 : o.sse = KMS

\* ------------------------------------------------------ the event directory
\* dynamodb_service.save_event called with an event record, of a new or of a
\* stored identifier; db_ok = FALSE: put_item raises
save_event(event_item, db_ok) ==
    /\ IF db_ok
       THEN /\ events' = put_item(events, event_item)
            /\ resp' = Answer("save_event", event_item.event_id, 200, "")
       ELSE /\ resp' = Answer("save_event", event_item.event_id, 500,
                              "Failed to save event to DynamoDB")
            /\ UNCHANGED events
    /\ oplog' = <<>>
    /\ UNCHANGED <<s3, guest_list, used_uuids>>

NextDirectory ==
    /\ UNCHANGED <<submitters, pipeline, environ, outbox, uploaders, PaymentVars, ImportVars>>
    /\  \/ \E e \in Events, owner \in Users, ok \in BOOLEAN : create_event(e, owner, ok)
        \/ \E e \in Events, owner \in Users, ok \in BOOLEAN : save_event(NewEvent(e, owner), ok)
        \/ \E e \in Events, status \in {ALBUM_UPLOADED, COMPLETED} : update_event_status(e, status)

SpecDirectory == InitUpload /\ [][NextDirectory]_vars

\* C19: saving an event record whose identifier is already in the directory
\* fails (AlreadyExists) and leaves the stored record as it was.
C19_NoOverwrite ==
    [][(resp'.op = "save_event" /\ events[resp'.ev] # NoEvent)
          => /\ events' = events
             /\ resp'.status # 200]_vars

\* ------------------------------------------------------ the reference photo
\* C20: an invocation goes on to the recognition call only when the object it
\* downloaded in the fetch stage is the photo stored for a submission of the
\* invocation's guest: not the photo of another guest, not the folder marker
\* of guest-submissions, and never without a photo of that guest.
C20_GuestPhotoFetched ==
    [][(pipeline.pc = "download_photo" /\ pipeline'.pc = "recognize")
          => \E i \in DOMAIN guest_list[pipeline.ev] :
                 /\ guest_list[pipeline.ev][i].phone = pipeline.phone
                 /\ guest_list[pipeline.ev][i].photo_url = guest_photo_s3_path(pipeline.ev)]_vars

\* ------------------------------------------- answers of the recognition call
\* the recognition call of the current invocation returned 200 with an archive
\* that has no member
NoMatches ==
    /\ pipeline.attempts > 0
    /\ pipeline.response = Received("200", TRUE)
    /\ pipeline.images = <<>>

MalformedResponse ==
    /\ pipeline.attempts > 0
    /\ pipeline.response = Received("200", FALSE)

\* C22: after a 200 answer whose body is no archive the invocation fails with
\* the archive error, has made one recognition call and no further one, never
\* enters the publish stage and writes nothing below personalized-albums.
C22_MalformedResponseFails ==
    MalformedResponse =>
        /\ pipeline.pc \in {"cleanup", "idle"}
        /\ pipeline.outcome = "BadZipFile"
        /\ pipeline.attempts = 1
        /\ \A i \in DOMAIN pipeline.stages : pipeline.stages[i] # "publish"
        /\ WrittenByRun = {}
        /\ Published = pipeline.before

\* an invocation that met such an answer has re-raised the error
C22_Witness ==
    /\ MalformedResponse
    /\ Returned("BadZipFile")

\* ------------------------------------------------ concurrent album uploads
\* albums.py upload_event_album as the steps another request can run between:
\* the checks of :35-44 up to "await album.read()", then the uploads of the
\* images and update_event_status
NumUploaders == 2
Uploaders == 1..NumUploaders

Uploader(pc, e, n) == [pc |-> pc, ev |-> e, n |-> n]

\* the store after images 1..n of upload request i were written
RECURSIVE UploadImagesOf(_, _, _, _)
UploadImagesOf(store, path, n, i) ==
    IF n = 0 THEN store
    ELSE PutObject(UploadImagesOf(store, path, n - 1, i), album_image_key(path, n), i)

\* :35-46 the event is read and checked by its owner, then the body is awaited;
\* n: the number of images in the archive of the request
upload_event_album_check(i, e, n) ==
    LET event == get_event_by_id(e)
    IN  /\ uploaders[i].pc = "start"
        /\ event # NoEvent
        /\ n <= event.num_images
        /\ uploaders' = [uploaders EXCEPT
               ![i] = Uploader(IF event.status = ALBUM_UPLOADED THEN "rejected" ELSE "reading",
                               e, n)]
        /\ UNCHANGED <<events, s3, guest_list, resp, oplog, used_uuids, submitters, pipeline,
                       environ, outbox, PaymentVars, ImportVars>>

\* :47-84 the archive is read, its images are stored as 1..n and the status is
\* set; fail_at = k > 0: the upload of image k raises
upload_event_album_store(i, fail_at) ==
    LET event == get_event_by_id(uploaders[i].ev)
        path == generate_event_folder_path(event)
    IN  /\ uploaders[i].pc = "reading"
        /\ fail_at <= uploaders[i].n
        /\ IF fail_at > 0
           THEN /\ s3' = UploadImagesOf(s3, path, fail_at - 1, i)
                /\ uploaders' = [uploaders EXCEPT ![i].pc = "failed"]
                /\ UNCHANGED events
           ELSE /\ s3' = UploadImagesOf(s3, path, uploaders[i].n, i)
                /\ events' = SetStatus(events, uploaders[i].ev, ALBUM_UPLOADED)
                /\ uploaders' = [uploaders EXCEPT ![i].pc = "done"]
        /\ UNCHANGED <<guest_list, resp, oplog, used_uuids, submitters, pipeline,
                       environ, outbox, PaymentVars, ImportVars>>

InitConcurrentUpload ==
    /\ events = [e \in Events |-> NewEvent(e, "alice")]
    /\ s3 = create_event_folder(create_event_folder({}, "e1"), "e2")
    /\ guest_list = [e \in Events |-> <<>>]
    /\ resp = NoResponse
    /\ oplog = <<>>
    /\ used_uuids = {}
    /\ submitters = <<>>
    /\ pipeline = <<>>
    /\ environ = None
    /\ outbox = <<>>
    /\ uploaders = [i \in Uploaders |-> Uploader("start", "", 0)]
    /\ NoPayments
    /\ NoImports

NextConcurrentUpload ==
    \/ \E i \in Uploaders, e \in Events, n \in 1..MaxImages : upload_event_album_check(i, e, n)
    \/ \E i \in Uploaders, k \in 0..MaxImages : upload_event_album_store(i, k)

SpecConcurrentUpload == InitConcurrentUpload /\ [][NextConcurrentUpload]_vars

\* the upload requests for event e that completed successfully
Completed(e) == {i \in Uploaders : uploaders[i].pc = "done" /\ uploaders[i].ev = e}

\* the requests whose images are in the album folder of event e
AlbumWriters(e) == {o.v : o \in ListObjects(s3, e, "album", "")}

\* C23: of the interleaved upload requests for one event at most one completes
\* successfully, and the album folder of the event never holds images of two
\* different requests.
C23_OneUploadWins ==
    \A e \in Events :
        /\ Cardinality(Completed(e)) <= 1
        /\ Cardinality(AlbumWriters(e)) <= 1

\* --------------------------------------------- the status of an album upload
\* C24: an upload request through albums.py that is not answered 200 (bad
\* archive, no image, too many images, a failed image upload) leaves the
\* directory as it was; one that is answered 200 has stored every image of
\* the archive and set the status to AlbumUploaded.
C24_StatusAfterImages ==
    [][resp'.op = "albums_upload" =>
           IF resp'.status = 200
           THEN /\ events'[resp'.ev].status = ALBUM_UPLOADED
                /\ resp'.body # {}
                /\ \A r \in resp'.body :
                       \A k \in 1..r.images_processed :
                           HasObject(s3', album_image_key(resp'.ev, k))
           ELSE events' = events]_vars

\* a request failed at its second image: the first one is stored and the
\* status is still PendingUpload
C24_Witness ==
    /\ resp.op = "albums_upload"
    /\ resp.status = 500
    /\ HasObject(s3, album_image_key(resp.ev, 1))
    /\ events[resp.ev].status = PENDING_UPLOAD

\* C25: an upload request through albums.py by an authenticated user who is
\* not the owner of the event is answered 403 and changes neither the
\* directory nor the store.
C25_NonOwnerRejected ==
    [][(/\ resp'.op = "albums_upload"
        /\ events[resp'.ev] # NoEvent
        /\ resp'.authorization # events[resp'.ev].email)
          => /\ resp'.status = 403
             /\ events' = events
             /\ s3' = s3]_vars

\* mallory was refused on an event of alice
C25_Witness ==
    /\ resp.op = "albums_upload"
    /\ resp.status = 403
    /\ resp.authorization = "mallory"
    /\ events[resp.ev].email = "alice"

\* ------------------------------------------------------------ the payments
\* the uuid4 values create_payment draws as reference ids
References == {"r1", "r2"}

\* payment.py:35, 30 * 60 seconds, in ticks of the clock of the model
TOKEN_EXPIRATION == 1

\* the clock stops here
MaxTime == 2

\* the payment_success requests that may reach the creation of the event
MaxCallbacks == 2

\* token_storage[reference_id] = {"token": ..., "expires_at": ...}
StoreToken(storage, reference_id, entry) ==
    [k \in (DOMAIN storage) \cup {reference_id} |->
        IF k = reference_id THEN entry ELSE storage[k]]

\* del token_storage[reference_id]
DelToken(storage, reference_id) ==
    [k \in (DOMAIN storage) \ {reference_id} |-> storage[k]]

\* a cleaning that takes expires_at for the time the entry was stored
clean_expired_tokens_late(storage, current_time) ==
    [k \in {r \in DOMAIN storage :
                ~(storage[r].expires_at + TOKEN_EXPIRATION < current_time)} |-> storage[k]]

\* payment.py clean_expired_tokens: the entries with expires_at < current_time
\* are deleted
clean_expired_tokens(storage, current_time) ==
    [k \in {r \in DOMAIN storage : ~(storage[r].expires_at < current_time)} |-> storage[k]]

\* time.time() between two readings
time_passes ==
    /\ now < MaxTime
    /\ now' = now + 1
    /\ UNCHANGED <<events, s3, guest_list, resp, oplog, used_uuids, token_storage, callbacks>>

\* payment.py create_payment by current_user for an event of `email`;
\* price_ok: the price sent is the calculated one; pay_ok: payment.create()
create_payment(current_user, email, price_ok, pay_ok) ==
    LET op == "create_payment"
        cleaned == clean_expired_tokens(token_storage, now)
    IN  /\ IF ~price_ok
           THEN /\ resp' = Answer(op, "", 400, "Price mismatch detected.")
                /\ UNCHANGED <<token_storage, used_uuids>>
           ELSE IF email # current_user
           THEN /\ resp' = Answer(op, "", 403, "Unauthorized to create this event.")
                /\ token_storage' = cleaned
                /\ UNCHANGED used_uuids
           ELSE \E reference_id \in References \ used_uuids :
                /\ used_uuids' = used_uuids \cup {reference_id}
                /\ token_storage' =
                       StoreToken(cleaned, reference_id,
                                  [token |-> current_user,
                                   expires_at |-> now + TOKEN_EXPIRATION])
                /\ resp' = IF pay_ok
                           THEN Response(op, "", "", <<reference_id>>, 200, {})
                           ELSE Response(op, "", "", <<reference_id>>, 400, {})
        /\ oplog' = <<>>
        /\ UNCHANGED <<events, s3, guest_list, now, callbacks>>

\* what the request and PayPal give a payment_success call: the two query
\* parameters, the result of Payment.find, of payment.execute, the "custom"
\* field of the transaction and the reference id it ends with
PaymentRequest(payer_ok, find, execute_ok, metadata, reference_id) ==
    [payer_ok |-> payer_ok, find |-> find, execute_ok |-> execute_ok,
     metadata |-> metadata, reference_id |-> reference_id]

FindResults == {"found", "None", "ResourceNotFound"}
Metadata == {"nine fields", "no transactions", "missing", "malformed"}

\* the requests with at most one thing wrong
PaymentRequests ==
    {q \in {PaymentRequest(p, f, x, m, r) :
                p \in BOOLEAN, f \in FindResults, x \in BOOLEAN, m \in Metadata,
                r \in References} :
        Cardinality({c \in {"payer", "find", "execute", "metadata"} :
            \/ c = "payer" /\ ~q.payer_ok
            \/ c = "find" /\ q.find # "found"
            \/ c = "execute" /\ ~q.execute_ok
            \/ c = "metadata" /\ q.metadata # "nine fields"}) <= 1}

\* a request that reached `await client.post`
Callback(pc, request, token, event) ==
    [pc |-> pc, request |-> request, token |-> token, event |-> event]

Outcome(status, detail) == [status |-> status, detail |-> detail]
Passed == Outcome(0, "")

\* an HTTPException raised inside the try of payment_success is caught by its
\* `except Exception` and raised again with status 500 and the text of the
\* first one in the detail
InternalServerError(detail) == Outcome(500, detail)

INVALID_SESSION == "Invalid or expired session"

\* the answer of payment_success to a request
PaymentAnswer(request, e, outcome) ==
    [Response("payment_success", e, "", <<request.reference_id>>, outcome.status, {request})
        EXCEPT !.detail = outcome.detail]

\* the checks with the result of payment.execute ignored
paypal_checks_unexecuted(request) ==
    IF ~request.payer_ok THEN Outcome(400, "Invalid PayPal response")
    ELSE IF request.find = "ResourceNotFound" THEN Outcome(404, "Payment not found")
    ELSE IF request.find = "None" THEN InternalServerError("Payment not found")
    ELSE IF request.metadata = "no transactions"
    THEN InternalServerError("No transactions found in payment")
    ELSE IF request.metadata = "missing" THEN InternalServerError("Missing event metadata")
    ELSE IF request.metadata = "malformed"
    THEN InternalServerError("Invalid event metadata format")
    ELSE Passed

\* payment.py:135-177: the answer with which payment_success gives up before
\* it looks the reference id up, Passed when it gets there
paypal_checks(request) ==
    IF ~request.payer_ok THEN Outcome(400, "Invalid PayPal response")
    ELSE IF request.find = "ResourceNotFound" THEN Outcome(404, "Payment not found")
    ELSE IF request.find = "None" THEN InternalServerError("Payment not found")
    ELSE IF ~request.execute_ok THEN InternalServerError("Payment execution failed")
    ELSE IF request.metadata = "no transactions"
    THEN InternalServerError("No transactions found in payment")
    ELSE IF request.metadata = "missing" THEN InternalServerError("Missing event metadata")
    ELSE IF request.metadata = "malformed"
    THEN InternalServerError("Invalid event metadata format")
    ELSE Passed

Redeemed(found, token, storage) == [found |-> found, token |-> token, storage |-> storage]

\* the lookup that leaves the entry in the storage
redeem_kept(storage, reference_id) ==
    IF reference_id \notin DOMAIN storage
    THEN Redeemed(FALSE, "", storage)
    ELSE Redeemed(TRUE, storage[reference_id].token, storage)

\* payment.py:179-185: the lookup of the reference id, and the del of its entry
redeem(storage, reference_id) ==
    IF reference_id \notin DOMAIN storage
    THEN Redeemed(FALSE, "", storage)
    ELSE Redeemed(TRUE, storage[reference_id].token, DelToken(storage, reference_id))

\* payment.py payment_success from its entry to `await client.post`: the code
\* between has no await, so no other request of the process runs in it; the
\* calls of PayPal in it take `elapsed` ticks
payment_success(request, elapsed) ==
    LET cleaned == clean_expired_tokens(token_storage, now)
        checked == paypal_checks(request)
        looked == redeem(cleaned, request.reference_id)
    IN  /\ now + elapsed <= MaxTime
        /\ now' = now + elapsed
        /\ IF checked # Passed
           THEN /\ token_storage' = cleaned
                /\ resp' = PaymentAnswer(request, "", checked)
                /\ UNCHANGED callbacks
           ELSE IF ~looked.found
           THEN /\ token_storage' = cleaned
                /\ resp' = PaymentAnswer(request, "", InternalServerError(INVALID_SESSION))
                /\ UNCHANGED callbacks
           ELSE /\ Len(callbacks) < MaxCallbacks
                /\ token_storage' = looked.storage
                /\ callbacks' = Append(callbacks, Callback("posting", request, looked.token, ""))
                /\ UNCHANGED resp
        /\ oplog' = <<>>
        /\ UNCHANGED <<events, s3, guest_list, used_uuids>>

\* payment.py:190-204, after the await: POST /events/ was served by
\* create_event under the stored token, which made event e or failed
payment_success_posted(i, e, created) ==
    /\ i \in DOMAIN callbacks
    /\ callbacks[i].pc = "posting"
    /\ events[e] = NoEvent
    /\ IF created
       THEN /\ s3' = create_event_folder(s3, e)
            /\ events' = put_item(events, NewEvent(e, callbacks[i].token))
            /\ callbacks' = [callbacks EXCEPT ![i].pc = "done", ![i].event = e]
            /\ resp' = PaymentAnswer(callbacks[i].request, e, Outcome(307, ""))
       ELSE /\ callbacks' = [callbacks EXCEPT ![i].pc = "done"]
            /\ resp' = PaymentAnswer(callbacks[i].request, "",
                                     InternalServerError("Failed to create event"))
            /\ UNCHANGED <<events, s3>>
    /\ oplog' = <<>>
    /\ UNCHANGED <<guest_list, used_uuids, token_storage, now>>

InitPayment ==
    /\ events = [e \in Events |-> NoEvent]
    /\ s3 = {}
    /\ guest_list = [e \in Events |-> <<>>]
    /\ resp = NoResponse
    /\ oplog = <<>>
    /\ used_uuids = {}
    /\ submitters = <<>>
    /\ pipeline = <<>>
    /\ environ = None
    /\ outbox = <<>>
    /\ uploaders = <<>>
    /\ NoPayments
    /\ NoImports

NextPayment ==
    /\ UNCHANGED <<submitters, pipeline, environ, outbox, uploaders, ImportVars>>
    /\  \/ time_passes
        \/ \E u \in Users, email \in Users, price_ok \in BOOLEAN, pay_ok \in BOOLEAN :
               create_payment(u, email, price_ok, pay_ok)
        \/ \E request \in PaymentRequests, elapsed \in 0..1 :
               payment_success(request, elapsed)
        \/ \E i \in 1..MaxCallbacks, e \in Events, created \in BOOLEAN :
               payment_success_posted(i, e, created)

SpecPayment == InitPayment /\ [][NextPayment]_vars

\* the requests that obtained the token stored under reference id r
Redeemers(r) == {i \in DOMAIN callbacks : callbacks[i].request.reference_id = r}

\* this step is a payment_success request answered before the lookup or at it
IsRejection == resp' # resp /\ resp'.op = "payment_success" /\ callbacks' = callbacks

\* C26: of the payment_success calls that carry one reference id at most one
\* obtains the stored token and goes on to the creation of the event; a call
\* that comes after it is rejected, as an invalid or expired session when it
\* gets as far as the lookup, and creates no event.
C26_ReferenceSingleUse ==
    [][\A r \in References :
        /\ Cardinality({i \in DOMAIN callbacks' : callbacks'[i].request.reference_id = r}) <= 1
        /\ (IsRejection /\ resp'.uuid = <<r>> /\ Redeemers(r) # {})
              => /\ resp'.status \notin {200, 307}
                 /\ events' = events
                 /\ \A q \in resp'.body :
                        paypal_checks(q) = Passed => resp'.detail = INVALID_SESSION]_vars

\* a first call with r1 created an event, a second one that passed the checks
\* of PayPal was rejected at the lookup
C26_Witness ==
    /\ \E i \in DOMAIN callbacks :
           callbacks[i].request.reference_id = "r1" /\ callbacks[i].event # ""
    /\ resp.op = "payment_success"
    /\ resp.uuid = <<"r1">>
    /\ resp.detail = INVALID_SESSION

\* a request reached `await client.post` in this step
IsRedemption == Len(callbacks') > Len(callbacks)

\* this step ran clean_expired_tokens: a create_payment past the check of
\* the price, or a payment_success up to its await
RanClean ==
    \/ resp' # resp /\ resp'.op = "create_payment" /\ resp'.detail # "Price mismatch detected."
    \/ IsRejection
    \/ IsRedemption

\* C27: an entry is stored with expires_at = the time of create_payment +
\* TOKEN_EXPIRATION; a payment_success call made later than the expires_at of
\* a stored reference does not obtain its token: the entry is deleted, the
\* call is rejected and creates no event; and right after a request that ran
\* clean_expired_tokens no entry of the store has an expires_at earlier than
\* the time of that request.
C27_ExpiredNotRedeemed ==
    [][/\ \A r \in (DOMAIN token_storage') \ (DOMAIN token_storage) :
              token_storage'[r].expires_at = now + TOKEN_EXPIRATION
       /\ IsRedemption =>
              LET r == callbacks'[Len(callbacks')].request.reference_id
              IN  r \in DOMAIN token_storage /\ ~(now > token_storage[r].expires_at)
       /\ \A r \in DOMAIN token_storage :
              (/\ now > token_storage[r].expires_at
               /\ IsRejection
               /\ resp'.uuid = <<r>>)
                 => /\ r \notin DOMAIN token_storage'
                    /\ events' = events
                    /\ \A q \in resp'.body :
                           paypal_checks(q) = Passed => resp'.detail = INVALID_SESSION
       /\ RanClean =>
              \A k \in DOMAIN token_storage' : ~(token_storage'[k].expires_at < now)]_vars

\* a reference that create_payment stored was never redeemed, and the call
\* that carried it after its expiry was rejected at the lookup
C27_Witness ==
    /\ resp.op = "payment_success"
    /\ resp.detail = INVALID_SESSION
    /\ \E r \in used_uuids :
           /\ resp.uuid = <<r>>
           /\ Redeemers(r) = {}
           /\ r \notin DOMAIN token_storage

\* C28: a payment_success request reaches the call that creates the event
\* only with both query parameters, a payment that was found and executed,
\* well-formed metadata and a reference id that is in the token store; a
\* request answered earlier changes neither the directory nor the store, and
\* the directory changes only when such a call returns.
C28_CreateOnlyAfterExecute ==
    [][/\ IsRedemption =>
              LET q == callbacks'[Len(callbacks')].request
              IN  /\ q.payer_ok
                  /\ q.find = "found"
                  /\ q.execute_ok
                  /\ q.metadata = "nine fields"
                  /\ q.reference_id \in DOMAIN token_storage
       /\ IsRejection => events' = events /\ s3' = s3
       /\ events' # events =>
              \E i \in DOMAIN callbacks :
                  callbacks[i].pc = "posting" /\ callbacks'[i].pc = "done"]_vars

\* one request created its event, another one, whose payment PayPal did not
\* execute, was rejected with its reference still in the store
C28_Witness ==
    /\ \E i \in DOMAIN callbacks : callbacks[i].event # ""
    /\ resp.op = "payment_success"
    /\ resp.detail = "Payment execution failed"
    /\ \E r \in DOMAIN token_storage : resp.uuid = <<r>>

\* ------------------------------------------- the photos the roster names
\* C29: every entry of the roster of an event names a photo that is in the
\* store, whatever the interleaving of the submissions, and a submission
\* whose upload failed has put no entry on a roster.
C29_RosterPhotosStored ==
    /\ \A e \in Events : \A k \in DOMAIN guest_list[e] :
           HasObject(s3, guest_list[e][k].photo_url)
    /\ \A i \in Submitters :
           submitters[i].pc = "failed"
              => \A e \in Events : \A k \in DOMAIN guest_list[e] :
                     guest_list[e][k].photo_url.name.stem[2] # uuid4(i)

\* one submission is on the roster with its photo stored, another one failed
C29_Witness ==
    /\ \E e \in Events : Len(guest_list[e]) > 0
    /\ \E i \in Submitters : submitters[i].pc = "failed"

\* ------------------------------------------------- the guest-list imports
NumImporters == 2
Importers == 1..NumImporters

\* the two import functions; both use the local path /tmp/guest_list.csv
PROCESS_GUEST_LIST == "process_guest_list"
INSERT_GUESTS == "insert_guests_from_s3_to_dynamodb"
ImportFunctions == {PROCESS_GUEST_LIST, INSERT_GUESTS}

\* a line of guest_list.csv; the file may have more columns than name and phone
CsvRow(name, phone, note) == [name |-> name, phone |-> phone, note |-> note]

\* the guest_list.csv uploaded for each event
GuestListCsv(e) ==
    IF e = "e1"
    THEN <<CsvRow("bob", "p1", "groom")>>
    ELSE <<CsvRow("bob", "p2", "")>>

\* csv.DictReader and the loop that keeps {"name", "phone"} of each row
ParseCsv(rows) == [k \in DOMAIN rows |-> [name |-> rows[k].name, phone |-> rows[k].phone]]

Importer(pc, fn, e, rows) == [pc |-> pc, fn |-> fn, ev |-> e, guest_list |-> rows]

\* os.path.exists(temp_file_path) and os.remove(temp_file_path), the finally
\* of insert_guests_from_s3_to_dynamodb; process_guest_list has none
Finally(fn, file) == IF fn = INSERT_GUESTS THEN NoFile ELSE file

\* s3_client.download_file(bucket_name, key, "/tmp/guest_list.csv") of import
\* i, for event e: the local file becomes the CSV of e
download_guest_list(i, fn, e, download_ok) ==
    /\ importers[i].pc = "start"
    /\ \A j \in Importers \ {i} : importers[j].pc # "start" => importers[j].ev # e
    /\ IF download_ok
       THEN /\ tmp_file' = [exists |-> TRUE, rows |-> GuestListCsv(e)]
            /\ importers' = [importers EXCEPT ![i] = Importer("parse", fn, e, <<>>)]
       ELSE /\ tmp_file' = Finally(fn, tmp_file)
            /\ importers' = [importers EXCEPT ![i] = Importer("failed", fn, e, <<>>)]
    /\ UNCHANGED events_guest_list

\* open("/tmp/guest_list.csv") and the reading of its rows
parse_guest_list(i) ==
    /\ importers[i].pc = "parse"
    /\ IF tmp_file.exists
       THEN /\ importers' = [importers EXCEPT ![i].pc = "update",
                                              ![i].guest_list = ParseCsv(tmp_file.rows)]
            /\ UNCHANGED tmp_file
       ELSE /\ importers' = [importers EXCEPT ![i].pc = "failed"]
            /\ tmp_file' = Finally(importers[i].fn, tmp_file)
    /\ UNCHANGED events_guest_list

\* process_guest_list: update_guest_list(event_id, guest_list), SET guest_list;
\* insert_guests_from_s3_to_dynamodb: update_guest_list_in_dynamodb is not
\* defined (its def is commented out), the call raises NameError, and the
\* finally removes the local file
store_guest_list(i, db_ok) ==
    /\ importers[i].pc = "update"
    /\ IF importers[i].fn = PROCESS_GUEST_LIST /\ db_ok
       THEN /\ events_guest_list' =
                   [events_guest_list EXCEPT ![importers[i].ev] = importers[i].guest_list]
            /\ importers' = [importers EXCEPT ![i].pc = "done"]
            /\ UNCHANGED tmp_file
       ELSE /\ importers' = [importers EXCEPT ![i].pc = "failed"]
            /\ tmp_file' = Finally(importers[i].fn, tmp_file)
            /\ UNCHANGED events_guest_list

InitImport ==
    /\ events = [e \in Events |-> NewEvent(e, "alice")]
    /\ s3 = {}
    /\ guest_list = [e \in Events |-> <<>>]
    /\ resp = NoResponse
    /\ oplog = <<>>
    /\ used_uuids = {}
    /\ submitters = <<>>
    /\ pipeline = <<>>
    /\ environ = None
    /\ outbox = <<>>
    /\ uploaders = <<>>
    /\ NoPayments
    /\ tmp_file = NoFile
    /\ importers = [i \in Importers |-> Importer("start", "", "", <<>>)]
    /\ events_guest_list = [e \in Events |-> <<>>]

NextImport ==
    /\ UNCHANGED <<events, s3, guest_list, resp, oplog, used_uuids, submitters, pipeline,
                   environ, outbox, uploaders, PaymentVars>>
    /\  \/ \E i \in Importers, fn \in ImportFunctions, e \in Events, ok \in BOOLEAN :
               download_guest_list(i, fn, e, ok)
        \/ \E i \in Importers : parse_guest_list(i)
        \/ \E i \in Importers, ok \in BOOLEAN : store_guest_list(i, ok)

SpecImport == InitImport /\ [][NextImport]_vars

\* C30: with imports for different events interleaved, the guest list stored
\* for an event is the one parsed from the CSV of that event.
C30_ImportsIsolated ==
    \A e \in Events :
        events_guest_list[e] = <<>> \/ events_guest_list[e] = ParseCsv(GuestListCsv(e))

====
